---- MODULE Spec2Model ----
(***************************************************************************)
(* The persistent simulation queue of dss-generator: the tables of the     *)
(* SQLite store, the Connection primitives of database.py, the scoped      *)
(* connection of SimulationDB.connect and the SimulationQueue service.     *)
(*                                                                         *)
(* A table is a set of rows; a row is a record indexed by column name.     *)
(* Attribute values of a Simulation are kept as opaque text tokens (the    *)
(* store is dynamically typed); priorities are integers.                   *)
(***************************************************************************)
EXTENDS Integers, Sequences, FiniteSets, TLC

VARIABLES
    db,     \* the committed (durable) content of the store file
    view,   \* the content seen through the connection: db plus uncommitted work
    conn,   \* "none": no connection scope; "open": usable; "closed": close() was called
    last,   \* the last call: its name, arguments and outcome
    before, \* the view as the last call found it
    made    \* the simulations the producer has constructed, in order

vars == <<db, view, conn, last, before, made>>

----------------------------------------------------------------------------
(* Bounds of the model *)

MaxPriority == 2
MaxBatch == 2
MaxRows == 3
MaxMade == 2

Names == {"a", "b"}            \* texts used as topology names and as ids
Simulators == {"e1", "e2"}     \* texts used as simulator ids
Priorities == 1..MaxPriority
Destinations == {"1"}

----------------------------------------------------------------------------
(* simulation.py: the Simulation named tuple *)

SimulationFields ==
    <<"topology", "destination", "repetitions", "min_delay", "max_delay",
      "threshold", "stubs_file", "seed", "reportnodes", "id">>

Range(s) == {s[i] : i \in DOMAIN s}

\* The values of a Simulation in field order, as *simulation unpacks them.
AsTuple(s) == [i \in DOMAIN SimulationFields |-> s[SimulationFields[i]]]

\* The id every Simulation built without one gets: the default is made once,
\* when the class is defined.
DefaultId == "uuid"

RequiredFields == Range(SimulationFields) \ {"reportnodes", "id"}

\* Simulation(**kw): a keyword that is no field, or a missing field without a
\* default, is a TypeError.
SimulationNew(kw) ==
    IF DOMAIN kw \subseteq Range(SimulationFields) /\ RequiredFields \subseteq DOMAIN kw
    THEN [exc |-> "none",
          value |-> [f \in Range(SimulationFields) |->
                        IF f \in DOMAIN kw THEN kw[f]
                        ELSE IF f = "id" THEN DefaultId ELSE "False"]]
    ELSE [exc |-> "TypeError", value |-> "none"]

\* The simulations a producer hands to the store.
Simulations ==
    [topology : Names, destination : Destinations, repetitions : {"100"},
     min_delay : {"10"}, max_delay : {"1000"}, threshold : {"2000000"},
     stubs_file : {"s"}, seed : {"None"}, reportnodes : {"False"}, id : Names]

----------------------------------------------------------------------------
(* The schema created by tables.sql *)

Tables == {"simulator", "simulation", "queue", "running", "complete"}

Columns(table) ==
    CASE table = "simulator" -> <<"id">>
      [] table = "simulation" ->
            <<"id", "topology", "destination", "repetitions", "min_delay",
              "max_delay", "threshold", "stubs_file", "seed", "reportnodes">>
      [] table = "queue" -> <<"id", "priority">>
      [] table = "running" -> <<"id", "simulator_id">>
      [] table = "complete" -> <<"id", "simulator_id", "finish_datetime">>

\* Foreign keys of a table: the referencing column and the referenced table.
ForeignKeys(table) ==
    CASE table = "queue" -> {[col |-> "id", parent |-> "simulation"]}
      [] table = "running" -> {[col |-> "id", parent |-> "simulation"],
                               [col |-> "simulator_id", parent |-> "simulator"]}
      [] table = "complete" -> {[col |-> "id", parent |-> "simulation"],
                                [col |-> "simulator_id", parent |-> "simulator"]}
      [] OTHER -> {}

\* Tables whose rows are deleted with the simulation row they reference.
CascadeTables == {"queue", "running", "complete"}

EmptyStore == [t \in Tables |-> {}]

Ids(v, table) == {r.id : r \in v[table]}

----------------------------------------------------------------------------
(* The storage engine, as the sqlite3 calls of database.py use it *)

\* The engine's default, were the pragma not issued.
foreign_keys_default == FALSE

\* PRAGMA foreign_keys=ON, set when a Connection is constructed.
foreign_keys == TRUE

\* How sqlite3 binds the values of a Simulation: a bool is stored as the
\* integer 0 or 1, every other value as it is.
Adapt(value) ==
    IF value = "False" THEN "0" ELSE IF value = "True" THEN "1" ELSE value

Bind(values) == [i \in DOMAIN values |-> Adapt(values[i])]

\* INSERT OR REPLACE INTO table: a row of the same id is overwritten.
SqlInsertOrReplace(v, table, all_values) ==
    LET cols == Columns(table)
        row == [c \in Range(cols) |->
                  all_values[CHOOSE i \in DOMAIN cols : cols[i] = c]]
    IN  [err |-> "none",
         view |-> [v EXCEPT ![table] = {r \in @ : r.id # row.id} \cup {row}]]

\* INSERT INTO table VALUES (all_values): values are bound to the columns by
\* position; the primary key is checked as the row is written, the foreign
\* keys when the statement ends.
\* An insert that does not check the references of the row.
SqlInsertUnchecked(v, table, all_values) ==
    LET cols == Columns(table)
        row == [c \in Range(cols) |->
                  all_values[CHOOSE i \in DOMAIN cols : cols[i] = c]]
    IN  IF Len(all_values) # Len(cols)
        THEN [err |-> "OperationalError", view |-> v]
        ELSE IF row.id \in Ids(v, table)
        THEN [err |-> "UNIQUE constraint failed", view |-> v]
        ELSE [err |-> "none", view |-> [v EXCEPT ![table] = @ \cup {row}]]

SqlInsert(v, table, all_values) ==
    LET cols == Columns(table)
        row == [c \in Range(cols) |->
                  all_values[CHOOSE i \in DOMAIN cols : cols[i] = c]]
    IN  IF Len(all_values) # Len(cols)
        THEN [err |-> "OperationalError", view |-> v]
        ELSE IF row.id \in Ids(v, table)
        THEN [err |-> "UNIQUE constraint failed", view |-> v]
        ELSE IF foreign_keys /\ \E fk \in ForeignKeys(table) :
                                    row[fk.col] \notin Ids(v, fk.parent)
        THEN [err |-> "FOREIGN KEY constraint failed", view |-> v]
        ELSE [err |-> "none", view |-> [v EXCEPT ![table] = @ \cup {row}]]

\* DELETE FROM table WHERE id=?: with foreign keys on, the rows that reference
\* a deleted simulation go with it.
SqlDelete(v, table, entry_id) ==
    [t \in Tables |->
        IF t = table \/ (foreign_keys /\ table = "simulation" /\ t \in CascadeTables)
        THEN {r \in v[t] : r.id # entry_id}
        ELSE v[t]]

\* SELECT * FROM simulation JOIN stage ON simulation.id == stage.id: a joined
\* row answers a column name with the first column of that name.
Join(v, stage) ==
    {[c \in Range(Columns("simulation")) \cup Range(Columns(stage)) |->
         IF c \in Range(Columns("simulation")) THEN s[c] ELSE m[c]] :
       <<s, m>> \in {p \in v["simulation"] \X v[stage] : p[1].id = p[2].id}}

\* A query without ORDER BY yields its rows in an order the engine chooses.
RowOrders(rows) ==
    {q \in [1..Cardinality(rows) -> rows] : Range(q) = rows}

_is_unique_constraint(error) == error = "UNIQUE constraint failed"

\* The test with another wording of the engine's message.
_is_foreign_key_constraint_reworded(error) == error = "FOREIGN KEY constraint violated"

_is_foreign_key_constraint(error) == error = "FOREIGN KEY constraint failed"

----------------------------------------------------------------------------
(* database.py: Connection.  Each primitive is a function of the connection's
   view giving the exception raised ("none" when it returns), the value
   returned and the view afterwards. *)

Outcome(exc, value, v) == [exc |-> exc, value |-> value, view |-> v]

_insert_in(v, table, id, values) ==
    LET r == SqlInsert(v, table, <<id>> \o values)
    IN  IF r.err = "none" THEN Outcome("none", "None", r.view)
        ELSE IF _is_foreign_key_constraint(r.err)
        THEN Outcome("EntryNotFoundError", "None", v)
        ELSE IF _is_unique_constraint(r.err)
        THEN Outcome("EntryExistsError", "None", v)
        ELSE Outcome(r.err, "None", v)

_delete_from(v, table, entry_id) ==
    Outcome("none", "None", SqlDelete(v, table, entry_id))

\* datetime.strftime(DATETIME_FORMAT): the text names the whole second.
strftime(dt) == dt.second

\* datetime.strptime(text, DATETIME_FORMAT)
strptime(text) == [second |-> text, microsecond |-> 0]

\* The finish times a worker reports: a whole second and its microseconds.
Datetimes == [second : {0}, microsecond : {0, 1}]

insert_simulator(v, id) == _insert_in(v, "simulator", id, <<>>)

insert_simulation(v, simulation) ==
    _insert_in(v, "simulation", Head(Bind(AsTuple(simulation))),
               Tail(Bind(AsTuple(simulation))))

insert_in_queue(v, simulation_id, priority) ==
    _insert_in(v, "queue", simulation_id, <<priority>>)

insert_in_running(v, simulation_id, simulator_id) ==
    _insert_in(v, "running", simulation_id, <<simulator_id>>)

insert_in_complete(v, simulation_id, simulator_id, finish_datetime) ==
    _insert_in(v, "complete", simulation_id,
               <<simulator_id, strftime(finish_datetime)>>)

delete_simulation(v, simulation_id) == _delete_from(v, "simulation", simulation_id)

\* delete_from_queue naming the simulation table.
delete_from_queue_whole(v, simulation_id) == _delete_from(v, "simulation", simulation_id)

delete_from_queue(v, simulation_id) == _delete_from(v, "queue", simulation_id)

delete_from_running(v, simulation_id) == _delete_from(v, "running", simulation_id)

_simulation_fromrow(row) ==
    SimulationNew([id |-> row.id, topology |-> row.topology,
                   destination |-> row.destination,
                   repetitions |-> row.repetitions,
                   min_delay |-> row.min_delay, max_delay |-> row.max_delay,
                   threshold |-> row.threshold, stubs_file |-> row.stubs_file,
                   seed |-> row.seed,
                   enable_reportnodes |->
                       IF row.reportnodes = "1" THEN "True" ELSE "False"])

\* Running a generator to its end: the items it yields, or the first
\* exception raised while making one.
Collect(items) ==
    LET bad == {i \in DOMAIN items : items[i].exc # "none"}
    IN  IF bad = {}
        THEN [exc |-> "none", value |-> [i \in DOMAIN items |-> items[i].value]]
        ELSE [exc |-> items[CHOOSE i \in bad : \A j \in bad : i <= j].exc,
              value |-> "none"]

\* list(connection.simulators())
simulators(v, rows) == Outcome("none", [i \in DOMAIN rows |-> rows[i].id], v)

\* list(connection.all_simulations())
all_simulations(v, rows) ==
    LET c == Collect([i \in DOMAIN rows |-> _simulation_fromrow(rows[i])]) IN Outcome(c.exc, c.value, v)

StageItem(row, companion) ==
    LET s == _simulation_fromrow(row)
    IN  IF s.exc # "none" THEN s
        ELSE [exc |-> "none",
              value |-> <<s.value>> \o [i \in DOMAIN companion |-> row[companion[i]]]]

QueuedItem(row) == StageItem(row, <<"priority">>)

RunningItem(row) == StageItem(row, <<"simulator_id">>)

CompleteItem(row) ==
    LET s == StageItem(row, <<"simulator_id">>)
    IN  IF s.exc # "none" THEN s
        ELSE [exc |-> "none",
              value |-> s.value \o <<strptime(row.finish_datetime)>>]

\* list(connection.queued_simulations()): the query has no ORDER BY.
queued_simulations(v, rows) ==
    LET c == Collect([i \in DOMAIN rows |-> QueuedItem(rows[i])]) IN Outcome(c.exc, c.value, v)

\* list(connection.running_simulations())
running_simulations(v, rows) ==
    LET c == Collect([i \in DOMAIN rows |-> RunningItem(rows[i])]) IN Outcome(c.exc, c.value, v)

\* list(connection.complete_simulations())
complete_simulations(v, rows) ==
    LET c == Collect([i \in DOMAIN rows |-> CompleteItem(rows[i])]) IN Outcome(c.exc, c.value, v)

\* ... WHERE priority IN (SELECT max(priority) FROM queue)
NextRows(v) ==
    {r \in Join(v, "queue") : \A q \in v["queue"] : q.priority <= r.priority}

\* ... WHERE simulator_id = ?
RunningRows(v, simulator_id) ==
    {r \in Join(v, "running") : r.simulator_id = simulator_id}

\* cursor.fetchone() and the conversion of the row, None without a row.
FirstOf(v, rows) ==
    IF rows = <<>> THEN Outcome("none", "None", v)
    ELSE LET s == _simulation_fromrow(rows[1]) IN Outcome(s.exc, s.value, v)

next_simulation(v, rows) == FirstOf(v, rows)

running_simulation(v, rows) == FirstOf(v, rows)

----------------------------------------------------------------------------
(* database.py: SimulationDB.connect, the scope of a connection *)

\* A scope exit that commits nothing.
ScopeExit_discards(committed, pending, exc) == committed

\* A scope exit that commits whatever is pending, error or not.
ScopeExit_commits(committed, pending, exc) == pending

\* Leaving `with sqlite3.connect(...) as connection`: the pending work is
\* committed when the body ended normally and rolled back when it raised.
ScopeExit(committed, pending, exc) ==
    IF exc = "none" THEN pending ELSE committed

----------------------------------------------------------------------------
(* sim_queue.py: SimulationQueue *)

\* The body of add: the two inserts of one simulation.
AddBody(v, simulation, priority) ==
    LET r == insert_simulation(v, simulation)
    IN  IF r.exc # "none" THEN r
        ELSE insert_in_queue(r.view, simulation.id, priority)

\* The loop of add_all, left at the first exception.
RECURSIVE AddAllBody(_, _, _)
AddAllBody(v, simulations, priority) ==
    IF simulations = <<>> THEN Outcome("none", "None", v)
    ELSE LET r == AddBody(v, Head(simulations), priority)
         IN  IF r.exc # "none" THEN r
             ELSE AddAllBody(r.view, Tail(simulations), priority)

Batches == UNION {[1..n -> Simulations] : n \in 0..MaxBatch}

----------------------------------------------------------------------------
(* The state machine *)

Called(op, arg, exc, value) ==
    /\ last' = [op |-> op, arg |-> arg, exc |-> exc, value |-> value]
    /\ before' = view
    /\ UNCHANGED made

\* A handle is usable while it is open, inside the `with` block that opened it
\* ("open") or after that block has been left ("left"): leaving the block ends
\* the transaction and does not close the handle.
Usable == conn \in {"open", "left"}

\* A primitive called on a usable handle.
Do(op, arg, out) ==
    /\ Usable
    /\ view' = out.view
    /\ Called(op, arg, out.exc, out.value)
    /\ UNCHANGED <<db, conn>>

Init ==
    /\ db = EmptyStore
    /\ view = EmptyStore
    /\ conn = "none"
    /\ last = [op |-> "init", arg |-> <<>>, exc |-> "none", value |-> "None"]
    /\ before = EmptyStore
    /\ made = <<>>

\* Entering a `with database.connect()` block opens a new handle; a handle kept
\* from an earlier block is abandoned.
Connect ==
    /\ conn \in {"none", "left"}
    /\ conn' = "open"
    /\ view' = db
    /\ Called("connect", <<>>, "none", "None")
    /\ UNCHANGED db

InsertSimulator ==
    \E id \in Simulators : Do("insert_simulator", <<id>>, insert_simulator(view, id))

InsertSimulation ==
    \E s \in Simulations : Do("insert_simulation", <<s>>, insert_simulation(view, s))

InsertInQueue ==
    \E id \in Names, p \in Priorities :
        Do("insert_in_queue", <<id, p>>, insert_in_queue(view, id, p))

InsertInRunning ==
    \E id \in Names, e \in Simulators :
        Do("insert_in_running", <<id, e>>, insert_in_running(view, id, e))

InsertInComplete ==
    \E id \in Names, e \in Simulators, dt \in Datetimes :
        Do("insert_in_complete", <<id, e, dt>>, insert_in_complete(view, id, e, dt))

DeleteSimulation ==
    \E id \in Names : Do("delete_simulation", <<id>>, delete_simulation(view, id))

DeleteFromQueue ==
    \E id \in Names : Do("delete_from_queue", <<id>>, delete_from_queue(view, id))

DeleteFromRunning ==
    \E id \in Names : Do("delete_from_running", <<id>>, delete_from_running(view, id))

ListSimulators ==
    \E rows \in RowOrders(view["simulator"]) :
        Do("simulators", <<>>, simulators(view, rows))

ListAllSimulations ==
    \E rows \in RowOrders(view["simulation"]) :
        Do("all_simulations", <<>>, all_simulations(view, rows))

ListQueued ==
    \E rows \in RowOrders(Join(view, "queue")) :
        Do("queued_simulations", <<>>, queued_simulations(view, rows))

ListRunning ==
    \E rows \in RowOrders(Join(view, "running")) :
        Do("running_simulations", <<>>, running_simulations(view, rows))

ListComplete ==
    \E rows \in RowOrders(Join(view, "complete")) :
        Do("complete_simulations", <<>>, complete_simulations(view, rows))

NextSimulation ==
    \E rows \in RowOrders(NextRows(view)) :
        Do("next_simulation", <<>>, next_simulation(view, rows))

RunningSimulation ==
    \E e \in Simulators : \E rows \in RowOrders(RunningRows(view, e)) :
        Do("running_simulation", <<e>>, running_simulation(view, rows))

Commit ==
    /\ Usable
    /\ db' = view
    /\ Called("commit", <<>>, "none", "None")
    /\ UNCHANGED <<view, conn>>

\* rollback() that leaves the pending work in place.
Rollback_keeps ==
    /\ Usable
    /\ Called("rollback", <<>>, "none", "None")
    /\ UNCHANGED <<db, view, conn>>

Rollback ==
    /\ Usable
    /\ view' = db
    /\ Called("rollback", <<>>, "none", "None")
    /\ UNCHANGED <<db, conn>>

\* close() commits nothing: the pending work is lost with the handle.
Close ==
    /\ conn # "none"
    /\ conn' = IF conn = "left" THEN "none" ELSE "closed"
    /\ view' = db
    /\ Called("close", <<>>, "none", "None")
    /\ UNCHANGED db

\* Any other call on a closed handle.
UseClosed ==
    /\ conn = "closed"
    /\ \E op \in {"insert", "delete", "select", "commit", "rollback"} :
           Called(op, <<>>, "ProgrammingError", "None")
    /\ UNCHANGED <<db, view, conn>>

\* The body of a `with database.connect()` ends, normally or by an exception.
\* Committing or rolling back a closed handle is a ProgrammingError. The exit
\* does not close the handle: one that was open stays usable.
Leave ==
    /\ conn \in {"open", "closed"}
    /\ \E exc \in {"none", "Exception"} :
          /\ db' = IF conn = "open" THEN ScopeExit(db, view, exc) ELSE db
          /\ Called("leave", <<exc>>,
                    IF conn = "open" THEN exc ELSE "ProgrammingError", "None")
    /\ view' = db'
    /\ conn' = IF conn = "open" THEN "left" ELSE "none"

Add ==
    /\ conn = "none"
    /\ \E s \in Simulations, p \in Priorities :
          \E out \in {AddBody(db, s, p)} :
              /\ db' = ScopeExit(db, out.view, out.exc)
              /\ Called("add", <<s, p>>, out.exc, "None")
    /\ view' = db'
    /\ UNCHANGED conn

AddAll ==
    /\ conn = "none"
    /\ \E b \in Batches, p \in Priorities :
          \E out \in {AddAllBody(db, b, p)} :
              /\ db' = ScopeExit(db, out.view, out.exc)
              /\ Called("add_all", <<b, p>>, out.exc, "None")
    /\ view' = db'
    /\ UNCHANGED conn

\* The calls of a client that moves simulations through the stages on one
\* connection and commits nothing.
StoreNext ==
    \/ Connect
    \/ InsertSimulator
    \/ InsertSimulation
    \/ InsertInQueue
    \/ InsertInRunning
    \/ InsertInComplete
    \/ DeleteSimulation
    \/ DeleteFromQueue
    \/ DeleteFromRunning
    \/ ListSimulators
    \/ ListAllSimulations
    \/ ListQueued
    \/ ListRunning
    \/ ListComplete
    \/ NextSimulation
    \/ RunningSimulation
    \/ Rollback
    \/ Close
    \/ UseClosed

StoreSpec == Init /\ [][StoreNext]_vars

\* The calls of a producer: the queue service, and scoped connections used to
\* insert, queue and delete simulations in transactions.
Next ==
    \/ Connect
    \/ InsertSimulation
    \/ InsertInQueue
    \/ DeleteSimulation
    \/ DeleteFromQueue
    \/ Commit
    \/ Rollback
    \/ Close
    \/ UseClosed
    \/ Leave
    \/ Add
    \/ AddAll

Spec == Init /\ [][Next]_vars

----------------------------------------------------------------------------
(* Transactions over all the tables *)

RowCount(v) ==
    Cardinality(v["simulator"]) + Cardinality(v["simulation"])
        + Cardinality(v["queue"]) + Cardinality(v["running"])
        + Cardinality(v["complete"])

\* The store stays within MaxRows rows.
Small == RowCount(view) <= MaxRows

\* The insert, delete, commit and rollback calls of one connection.
TransactNext ==
    \/ Connect
    \/ InsertSimulator /\ Small'
    \/ InsertSimulation /\ Small'
    \/ InsertInQueue /\ Small'
    \/ InsertInRunning /\ Small'
    \/ InsertInComplete /\ Small'
    \/ DeleteSimulation
    \/ DeleteFromQueue
    \/ DeleteFromRunning
    \/ Commit
    \/ Rollback

TransactSpec == Init /\ [][TransactNext]_vars

----------------------------------------------------------------------------
(* The producer: simulations are constructed, then added to the queue *)

\* The keyword arguments of a construction: the required fields alone, every
\* field, or the arguments generate_simulations passes.
RequiredKeywords ==
    [topology : Names, destination : Destinations, repetitions : {"100"},
     min_delay : {"10"}, max_delay : {"1000"}, threshold : {"2000000"},
     stubs_file : {"s"}, seed : {"None"}]

GenerateKeywords ==
    [topology : Names, destination : Destinations, repetitions : {"100"},
     min_delay : {"10"}, max_delay : {"1000"}, threshold : {"2000000"},
     stubs_file : {"s"}, seed : {"None"}, enable_reportnodes : {"False"},
     id : Names]

ProducerKeywords == RequiredKeywords \cup Simulations \cup GenerateKeywords

\* Simulation(**kw): the value is kept with the names of the fields given.
Construct ==
    /\ Len(made) < MaxMade
    /\ \E kw \in ProducerKeywords :
          \E r \in {SimulationNew(kw)} :
              /\ made' = IF r.exc = "none"
                         THEN Append(made, [given |-> DOMAIN kw, value |-> r.value])
                         ELSE made
              /\ last' = [op |-> "Simulation", arg |-> <<kw>>, exc |-> r.exc,
                          value |-> r.value]
    /\ before' = view
    /\ UNCHANGED <<db, view, conn>>

\* add() of a simulation the producer constructed.
AddMade ==
    /\ conn = "none"
    /\ \E i \in DOMAIN made, p \in Priorities :
          \E out \in {AddBody(db, made[i].value, p)} :
              /\ db' = ScopeExit(db, out.view, out.exc)
              /\ Called("add", <<made[i].value, p>>, out.exc, "None")
    /\ view' = db'
    /\ UNCHANGED conn

ProducerNext ==
    \/ Construct
    \/ AddMade

ProducerSpec == Init /\ [][ProducerNext]_vars

----------------------------------------------------------------------------
(* The stage transitions of a simulation, which the caller composes from the
   primitives of one connection *)

\* Into the queue: insert_simulation, then insert_in_queue.
Enqueue ==
    \E s \in Simulations, p \in Priorities :
        Do("enqueue", <<s, p>>, AddBody(view, s, p))

\* delete_from_queue, then insert_in_running.
ClaimBody(v, simulation_id, simulator_id) ==
    LET d == delete_from_queue(v, simulation_id)
    IN  IF d.exc # "none" THEN d
        ELSE insert_in_running(d.view, simulation_id, simulator_id)

\* Queued to running, for a simulation that is in the queue.
Claim ==
    \E id \in Ids(view, "queue"), e \in Simulators :
        Do("claim", <<id, e>>, ClaimBody(view, id, e))

\* delete_from_running, then insert_in_complete.
FinishBody(v, simulation_id, simulator_id, finish_datetime) ==
    LET d == delete_from_running(v, simulation_id)
    IN  IF d.exc # "none" THEN d
        ELSE insert_in_complete(d.view, simulation_id, simulator_id,
                                finish_datetime)

\* Running to complete, for a simulation that is running, on its simulator.
Finish ==
    \E r \in view["running"], dt \in Datetimes :
        Do("finish", <<r.id, r.simulator_id, dt>>,
           FinishBody(view, r.id, r.simulator_id, dt))

\* The calls of a dispatcher that moves simulations through the stages by
\* these transitions only, cancels them and asks what to run next.
LifecycleNext ==
    \/ Connect
    \/ InsertSimulator
    \/ Enqueue
    \/ Claim
    \/ Finish
    \/ DeleteFromQueue
    \/ DeleteFromRunning
    \/ DeleteSimulation
    \/ ListQueued
    \/ NextSimulation
    \/ RunningSimulation

LifecycleSpec == Init /\ [][LifecycleNext]_vars

----------------------------------------------------------------------------
(* Properties of the Connection primitives, checked under StoreSpec *)

StageInserts == {"insert_in_queue", "insert_in_running", "insert_in_complete"}

StageOf(op) ==
    CASE op = "insert_in_queue" -> "queue"
      [] op = "insert_in_running" -> "running"
      [] op = "insert_in_complete" -> "complete"

Stages == {"queue", "running", "complete"}

\* The last call was a stage insert naming a simulation or a simulator that
\* the store did not hold.
UnknownReference ==
    /\ last.op \in StageInserts
    /\ \/ last.arg[1] \notin Ids(before, "simulation")
       \/ /\ last.op # "insert_in_queue"
          /\ last.arg[2] \notin Ids(before, "simulator")

\* C1: inserting a Job whose id is already in the job table fails with
\* EntryExists and leaves the job table as it was.
C1_DuplicateJobRejected ==
    (last.op = "insert_simulation" /\ last.arg[1].id \in Ids(before, "simulation"))
        => (last.exc = "EntryExistsError" /\ view = before)

\* C2, as stated: a stage insert naming an unknown job or an unknown executor
\* always fails with EntryNotFound and creates no row.
C2_UnknownReferenceNotFound ==
    UnknownReference => (last.exc = "EntryNotFoundError" /\ view = before)

\* C2, amended: such an insert creates no row and fails with EntryNotFound,
\* unless the job already has a row in the targeted stage, where it fails
\* with EntryExists.
C2_UnknownReferenceFails ==
    UnknownReference =>
        /\ view = before
        /\ last.exc = IF last.arg[1] \in Ids(before, StageOf(last.op))
                      THEN "EntryExistsError" ELSE "EntryNotFoundError"

C2_Witness ==
    /\ last.op = "insert_in_running"
    /\ last.arg[1] \in Ids(before, "simulation")
    /\ last.arg[2] \notin Ids(before, "simulator")
    /\ before["simulator"] # {}
    /\ last.exc = "EntryNotFoundError"

\* C3: a stage insert for a job that already has a row in that stage (job and
\* executor known) fails with EntryExists and leaves the row as it was; every
\* stage table holds at most one row per job id.
C3_DuplicateMembershipRejected ==
    /\ (/\ last.op \in StageInserts
        /\ ~UnknownReference
        /\ last.arg[1] \in Ids(before, StageOf(last.op)))
           => (last.exc = "EntryExistsError" /\ view = before)
    /\ \A t \in Stages : \A r1 \in view[t], r2 \in view[t] : r1.id = r2.id => r1 = r2

C3_Witness ==
    /\ last.op = "insert_in_complete"
    /\ last.exc = "EntryExistsError"
    /\ last.arg[2] \in Ids(before, "simulator")
    /\ \E r \in view["complete"] : r.id = last.arg[1] /\ r.simulator_id # last.arg[2]

\* C4: next_job() returns "none" exactly when the queue is empty, and otherwise
\* a queued Job whose priority no queued job exceeds.
C4_NextJobIsMaximal ==
    last.op = "next_simulation" =>
        /\ last.exc = "none"
        /\ IF view["queue"] = {} THEN last.value = "None"
           ELSE \E q \in view["queue"] :
                   /\ q.id = last.value.id
                   /\ \A o \in view["queue"] : o.priority <= q.priority

\* C5: list_queued() yields every queued job once, with its priority, in
\* descending order of priority.
C5_QueuedListSorted ==
    last.op = "queued_simulations" =>
        /\ last.exc = "none"
        /\ Len(last.value) = Cardinality(view["queue"])
        /\ \A q \in view["queue"] : \E i \in DOMAIN last.value :
               last.value[i][1].id = q.id /\ last.value[i][2] = q.priority
        /\ \A i \in DOMAIN last.value : \A j \in DOMAIN last.value :
               i < j => last.value[i][2] >= last.value[j][2]

\* The ids the four listings can show: the rows their queries select.
ListedIds(v) ==
    Ids(v, "simulation") \cup UNION {{r.id : r \in Join(v, t)} : t \in Stages}

\* C6: after delete_job(id) no listing shows the id and no table holds a row
\* of it, in whatever stages the job was; the rows of other jobs, and the
\* executors, are as before.
C6_DeleteJobCascades ==
    last.op = "delete_simulation" =>
        /\ last.exc = "none"
        /\ last.arg[1] \notin ListedIds(view)
        /\ \A t \in Stages \cup {"simulation"} :
               view[t] = {r \in before[t] : r.id # last.arg[1]}
        /\ view["simulator"] = before["simulator"]

C6_Witness ==
    /\ last.op = "delete_simulation"
    /\ last.arg[1] \in Ids(before, "queue") \cap Ids(before, "complete")
    /\ view["simulation"] # {}
    /\ view["running"] # {}

----------------------------------------------------------------------------
(* Properties of the queue service and of transactions, checked under Spec *)

\* The store holds a job of that id, queued at priority p.
Stored(v, s, p) ==
    /\ s.id \in Ids(v, "simulation")
    /\ [id |-> s.id, priority |-> p] \in v["queue"]

\* Job i of the batch has the id of a stored job or of an earlier job of the batch.
Duplicates(v, batch, i) ==
    \/ batch[i].id \in Ids(v, "simulation")
    \/ \E j \in 1..(i - 1) : batch[j].id = batch[i].id

\* C8: add(job, priority) on a store that holds a Job of that id fails with
\* EntryExists and leaves the committed store as it was.
C8_AddExistingRejected ==
    (last.op = "add" /\ last.arg[1].id \in Ids(before, "simulation"))
        => (last.exc = "EntryExistsError" /\ db = before)

\* C9: add_all is all-or-nothing: a batch with a duplicate fails, a failing
\* call fails with EntryExists and commits nothing of the batch, and a call
\* that does not fail commits every job of the batch with its membership.
C9_AddAllAtomic ==
    last.op = "add_all" =>
        /\ (\E i \in DOMAIN last.arg[1] : Duplicates(before, last.arg[1], i))
               => last.exc = "EntryExistsError"
        /\ last.exc # "none" => (last.exc = "EntryExistsError" /\ db = before)
        /\ last.exc = "none" =>
               \A i \in DOMAIN last.arg[1] : Stored(db, last.arg[1][i], last.arg[2])

----------------------------------------------------------------------------
(* Properties of the scoped connection, checked under Spec *)

\* C11: a scope that is left normally commits what was pending in it, without
\* a commit() by the caller: the committed store becomes the view the handle
\* had at the exit, a connection opened afterwards starts from the committed
\* store, and a successful add() leaves the simulation and its queue row
\* committed.
C11_NormalExitCommits ==
    /\ (last.op = "leave" /\ last.exc = "none" /\ last.arg[1] = "none")
           => (db = before /\ view = db)
    /\ (last.op = "connect") => (view = db)
    /\ (last.op = "add" /\ last.exc = "none")
           => Stored(db, last.arg[1], last.arg[2])

C11_Witness ==
    /\ last.op = "leave" /\ last.exc = "none" /\ last.arg[1] = "none"
    /\ before["queue"] # {}
    /\ db = before

C13_ClosedAfterScope ==
    (last.op = "leave") => ~Usable

----------------------------------------------------------------------------
(* Properties of the stage transitions, checked under LifecycleSpec *)

StagesOf(v, id) == {t \in Stages : id \in Ids(v, t)}

\* C14: under the documented transitions (enqueue, claim, finish, cancel,
\* delete) every job is in at most one of the queue, running and complete
\* tables.
C14_AtMostOneStage ==
    \A id \in Names : Cardinality(StagesOf(view, id)) <= 1

\* C15: after a claim of job J for executor E the running table holds (J, E)
\* and J is not queued; running_simulation(E) returns the job running on E,
\* and None when no job runs on E; the queue reads return queued jobs only.
C15_ClaimFlow ==
    /\ (last.op = "claim" /\ last.exc = "none")
           => /\ [id |-> last.arg[1], simulator_id |-> last.arg[2]]
                     \in view["running"]
              /\ last.arg[1] \notin Ids(view, "queue")
    /\ (last.op = "running_simulation")
           => /\ last.exc = "none"
              /\ IF RunningRows(view, last.arg[1]) = {}
                 THEN last.value = "None"
                 ELSE \E r \in RunningRows(view, last.arg[1]) :
                         last.value.id = r.id
    /\ (last.op = "queued_simulations" /\ last.exc = "none")
           => \A i \in DOMAIN last.value :
                  last.value[i][1].id \in Ids(view, "queue")
    /\ (last.op = "next_simulation" /\ last.exc = "none"
           /\ view["queue"] # {})
           => last.value.id \in Ids(view, "queue")

----------------------------------------------------------------------------
(* Further properties of the Connection primitives, checked under StoreSpec *)

\* C16: an executor runs one job at a time: the running table holds at most
\* one row per executor.
C16_OneJobPerExecutor ==
    \A r1 \in view["running"] : \A r2 \in view["running"] :
        r1.simulator_id = r2.simulator_id => r1 = r2

\* C17: insert_simulation of a simulation whose id the store does not hold
\* succeeds and stores every attribute in the column of the same name, and
\* all_simulations() yields the stored simulations with those attributes.
C17_InsertStoresEveryAttribute ==
    /\ (last.op = "insert_simulation"
           /\ last.arg[1].id \notin Ids(before, "simulation"))
           => /\ last.exc = "none"
              /\ \E r \in view["simulation"] :
                     \A c \in Range(SimulationFields) :
                         r[c] = Adapt(last.arg[1][c])
    /\ (last.op = "all_simulations")
           => /\ last.exc = "none"
              /\ \A r \in view["simulation"] : \E i \in DOMAIN last.value :
                     last.value[i].id = r.id

\* C19: insert_in_complete stores the finish time cut to whole seconds, and
\* complete_simulations() yields, for every complete row, the simulation with
\* that stored time read back.
C19_FinishTimeRoundTrip ==
    /\ (last.op = "insert_in_complete" /\ last.exc = "none")
           => \E r \in view["complete"] :
                  /\ r.id = last.arg[1]
                  /\ strptime(r.finish_datetime) =
                         [second |-> last.arg[3].second, microsecond |-> 0]
    /\ (last.op = "complete_simulations")
           => /\ last.exc = "none"
              /\ \A r \in Join(view, "complete") :
                     \E i \in DOMAIN last.value :
                         /\ last.value[i][1].id = r.id
                         /\ last.value[i][3] = strptime(r.finish_datetime)

\* C20: next_simulation() changes no table and returns a queued simulation
\* of the highest priority whenever the queue is not empty, so that repeating
\* it returns such a simulation again; a row leaves the queue only by
\* delete_from_queue or delete_simulation, or with the transaction that
\* inserted it.
C20_NextJobPureRead ==
    /\ (last.op = "next_simulation")
           => /\ view = before
              /\ last.exc = "none"
              /\ (view["queue"] # {})
                    => \E r \in NextRows(view) : last.value.id = r.id
    /\ (\E r \in before["queue"] : r \notin view["queue"])
           => last.op \in {"delete_from_queue", "delete_simulation",
                           "rollback", "close"}

----------------------------------------------------------------------------
(* Referential integrity, checked under TransactSpec *)

Integrity(v) ==
    /\ \A t \in Stages : \A r \in v[t] : r.id \in Ids(v, "simulation")
    /\ \A t \in {"running", "complete"} : \A r \in v[t] :
           r.simulator_id \in Ids(v, "simulator")

\* C18: whatever inserts, deletes, commits and rollbacks are made, every
\* queue, running and complete row references a simulation of the store and
\* every running and complete row references a simulator of the store, in the
\* connection's view and in the committed store.
C18_ReferentialIntegrity == Integrity(view) /\ Integrity(db)

C18_Witness ==
    /\ last.op = "delete_simulation"
    /\ db["running"] # {}
    /\ before = db
    /\ view["running"] = {}

----------------------------------------------------------------------------
(* The ids of constructed simulations, checked under ProducerSpec *)

NoIdGiven(i) == "id" \notin made[i].given

\* C21: two simulations constructed without an explicit id have different
\* ids, and add() of a simulation constructed without an explicit id does not
\* fail with EntryExists.
C21_FreshIds ==
    /\ \A i \in DOMAIN made : \A j \in DOMAIN made :
           (i # j /\ NoIdGiven(i) /\ NoIdGiven(j))
               => made[i].value.id # made[j].value.id
    /\ (last.op = "add"
           /\ \E i \in DOMAIN made :
                  NoIdGiven(i) /\ made[i].value = last.arg[1])
           => last.exc # "EntryExistsError"

====
